---- MODULE Spec2Model ----
(***************************************************************************)
(* Payment and ledger core of the redeem bot: the Midtrans webhook handler *)
(* (webhook_server.py), the notification parser (payment_gateway.py), the  *)
(* two ledger back ends (database.py on SQLite, database_supabase.py on    *)
(* Supabase) and the upload handler that bills a batch and enqueues a Job  *)
(* (bot.py on_message).                                                    *)
(*                                                                         *)
(* Webhook requests run on Flask threads and interleave at every database  *)
(* call.  Upload handlers and admin commands are coroutines of the single  *)
(* asyncio event loop: between two awaits a coroutine owns the loop, and   *)
(* its database calls interleave only with the webhook threads.            *)
(*                                                                         *)
(* bot.py, webhook_server.py and admin_commands.py import the ledger from  *)
(* the module named `database`: database.py as written, and                *)
(* database_supabase.py once autoupdate.py has rewritten the imports.  The *)
(* variable backend is that choice.  webhook_server.py also imports        *)
(* get_or_create_user, which neither module defines; the handlers are      *)
(* modelled as they run once that name is importable.                      *)
(*                                                                         *)
(* The worker pool (bot.py login_worker) takes Jobs from login_queue and   *)
(* runs each in a thread of the default executor.  The job runner          *)
(* (redeem_core.py run_redeem_process, with cancel_redeem_process) is      *)
(* modelled on its own, called with the parameters it declares.            *)
(***************************************************************************)
EXTENDS Integers, Sequences, FiniteSets, TLC

\* ---------------------------------------------------------------- bounds
MaxReq    == 3      \* webhook deliveries, one after another
MaxConc   == 2      \* webhook requests handled at the same time
MaxMsg    == 2      \* uploads handled by on_message
MaxAdmin  == 1      \* admin addbalance commands
MaxOrders == 1      \* order ids

\* ------------------------------------------------------ program constants
REDEEM_COST_PER_CODE == 1000
MIN_TOPUP_AMOUNT     == 1000
MAX_CODES_PER_UPLOAD == 100
MAX_ATTEMPTS         == 3

MAX_LOGIN_WORKERS == 2      \* config.MAX_LOGIN_WORKERS (1 to 10)
WorkerIds    == 0..(MAX_LOGIN_WORKERS - 1)

Users        == {1}
OrderIds     == 1..MaxOrders
TopupAmounts == {MIN_TOPUP_AMOUNT, 10000}
AdminAmounts == {5000}
CodeCounts   == {0, 2, 4, MAX_CODES_PER_UPLOAD + 1}
Backends     == {"sqlite", "supabase"}

WhProcs  == {<<"wh", i>>  : i \in 1..MaxReq}
MsgProcs == {<<"msg", i>> : i \in 1..MaxMsg}
AdmProcs == {<<"adm", i>> : i \in 1..MaxAdmin}
LoopProcs == MsgProcs \cup AdmProcs
Procs     == WhProcs \cup LoopProcs
NoProc    == <<"none", 0>>

VARIABLES
    backend,      \* which module is bound to the name `database`
    users,        \* users table: user_id -> row
    topups,       \* topups table: order_id -> row
    wh,           \* webhook request threads
    msg,          \* on_message coroutines
    adm,          \* admin addbalance coroutines
    call,         \* the ledger call each process is executing
    loopOwner,    \* coroutine currently running on the event loop
    user_data,    \* bot.py user_data: user_id -> parameter step
    login_queue,  \* bot.py login_queue
    temp_files,   \* code_temp_<user>.txt: user_id -> upload that wrote it
    creditCount,  \* history: credits applied by the webhook per order_id
    ledgerSum,    \* history: per user, amounts of returned credits and debits
    workers,      \* login_worker tasks: worker_id -> position and task held
    threads,      \* executor threads running login_task, by upload
    put_log,      \* history: Jobs in the order login_queue.put took them
    get_log,      \* history: Jobs in the order login_queue.get returned them
    run,          \* the run_redeem_process call: locals and position
    cancel_flag,  \* redeem_core.py cancellation_manager._flag
    files,        \* code file, success log and invalid log of the run
    rhist,        \* history of the run: remote calls, outcome per code
    sink_raises,  \* whether a call of progress_callback raises
    jobs,         \* job runs of the workers sharing cancellation_manager
    response      \* the response redeem_code_with_retry handled last

\* state of the worker pool and state of the job runner
workerVars == <<workers, threads, get_log>>
sinkVars == <<sink_raises, jobs>>
redeemVars == <<run, cancel_flag, files, rhist, sinkVars, response>>

vars == <<backend, users, topups, wh, msg, adm, call, loopOwner, user_data,
          login_queue, temp_files, creditCount, ledgerSum, workers, threads,
          put_log, get_log, run, cancel_flag, files, rhist, sink_raises,
          jobs, response>>

\* ------------------------------------------------------------ strings
\* A string is a sequence of tokens; + on strings is \o.
SERVER_KEY   == <<"server-key">>
ATTACKER_KEY == <<"other-key">>
StatusCode   == <<"200">>
OrderStr(o)  == <<"TOPUP", o>>
AmountStr(a) == <<a>>

\* hashlib.sha512(s).hexdigest(), idealised as an injective function
Sha512(s) == <<"sha512">> \o s

\* tes.py generate_signature: what the provider sends
generate_signature(order_id, status_code, gross_amount, server_key) ==
    Sha512(order_id \o status_code \o gross_amount \o server_key)

\* verify_signature with the comparison left out
verify_signature_unchecked(order_id, status_code, gross_amount, server_key, signature_key) ==
    TRUE

verify_signature(order_id, status_code, gross_amount, server_key, signature_key) ==
    LET hash_string == order_id \o status_code \o gross_amount \o server_key
        hash_result == Sha512(hash_string)
    IN  hash_result = signature_key

\* ------------------------------------------------------- notifications
None == "<None>"
RequiredFields == {"order_id", "transaction_status", "status_code",
                   "gross_amount", "signature_key"}
TransactionStatuses == {"capture", "settlement", "cancel", "deny", "expire",
                        "pending", "refund"}
FraudStatuses == {"accept", "challenge", None}

\* the table with expire left among the statuses that stay pending
FinalStatusExpirePending(transaction_status, fraud_status) ==
    IF transaction_status = "capture"
    THEN (IF fraud_status = "accept" THEN "success" ELSE "failed")
    ELSE IF transaction_status = "settlement" THEN "success"
    ELSE IF transaction_status \in {"cancel", "deny"} THEN "failed"
    ELSE "pending"

\* The final status table of parse_webhook_notification
FinalStatus(transaction_status, fraud_status) ==
    IF transaction_status = "capture"
    THEN (IF fraud_status = "accept" THEN "success" ELSE "failed")
    ELSE IF transaction_status = "settlement" THEN "success"
    ELSE IF transaction_status \in {"cancel", "deny", "expire"} THEN "failed"
    ELSE IF transaction_status = "pending" THEN "pending"
    ELSE "pending"

\* n.keys are the keys present in the JSON object, n.get the values of .get()
parse_webhook_notification(n, server_key) ==
    LET missing_fields == {field \in RequiredFields : field \notin n.keys}
    IN  IF missing_fields # {}
        THEN [valid |-> FALSE, order_id |-> None, status |-> None]
        ELSE IF ~verify_signature(n.get.order_id, n.get.status_code,
                                  n.get.gross_amount, server_key,
                                  n.get.signature_key)
        THEN [valid |-> FALSE, order_id |-> None, status |-> None]
        ELSE [valid |-> TRUE, order_id |-> n.get.order_id,
              status |-> FinalStatus(n.get.transaction_status,
                                     n.get.fraud_status)]

\* Notifications the outside world can post.  origin records how the sender
\* built it: "signed" by the provider with the server key (tes.py
\* send_webhook), "forged" with another key or with the amount changed after
\* signing, "incomplete" with a required field left out or an empty body.
Signed(o, a, ts, fs) ==
    [keys |-> RequiredFields \cup {"fraud_status"},
     get  |-> [order_id |-> OrderStr(o), status_code |-> StatusCode,
               gross_amount |-> AmountStr(a), transaction_status |-> ts,
               fraud_status |-> fs,
               signature_key |-> generate_signature(OrderStr(o), StatusCode,
                                                    AmountStr(a), SERVER_KEY)]]

Notifications ==
    LET base == {Signed(o, a, ts, fs) : o \in OrderIds, a \in TopupAmounts,
                 ts \in TransactionStatuses, fs \in FraudStatuses}
        settled == {Signed(o, a, "settlement", "accept") : o \in OrderIds,
                    a \in TopupAmounts}
    IN  {[origin |-> "signed", body |-> n] : n \in base}
        \cup {[origin |-> "forged",
               body |-> [n EXCEPT !.get.signature_key =
                   generate_signature(n.get.order_id, n.get.status_code,
                                      n.get.gross_amount, ATTACKER_KEY)]]
              : n \in base}
        \cup {[origin |-> "forged",
               body |-> [n EXCEPT !.get.gross_amount = AmountStr(99)]]
              : n \in base}
        \cup {[origin |-> "incomplete", body |-> [n EXCEPT !.keys = @ \ {f}]]
              : n \in settled, f \in RequiredFields}
        \cup {[origin |-> "incomplete", body |-> [n EXCEPT !.keys = {}]]
              : n \in settled}

OrderOf(order_id) == order_id[2]

\* ------------------------------------------------------------ tables
NoUser  == [present |-> FALSE, balance |-> 0, total_topup |-> 0, total_spent |-> 0]
NewUser == [present |-> TRUE,  balance |-> 0, total_topup |-> 0, total_spent |-> 0]
NoTopup == [present |-> FALSE, user_id |-> 0, amount |-> 0, status |-> None]

\* INSERT OR IGNORE INTO users / the insert of get_balance
EnsureUser(tbl, u) == IF tbl[u].present THEN tbl ELSE [tbl EXCEPT ![u] = NewUser]

NoCall == [op |-> "none", pc |-> "none", user_id |-> 0, amount |-> 0,
           tag |-> 0, current_balance |-> 0, aux |-> 0, attempt |-> 0,
           ret |-> None]

IdleWh  == [pc |-> "idle", origin |-> None, order_id |-> 0, status |-> None,
            topup |-> NoTopup, resp |-> 0]
IdleMsg == [pc |-> "idle", user_id |-> 0, code_count |-> 0, total_cost |-> 0,
            debited |-> FALSE, outcome |-> None]
IdleAdm == [pc |-> "idle", user_id |-> 0, amount |-> 0, outcome |-> None]

\* a login_worker blocked in login_queue.get()
NoTask == [user_id |-> 0, code_file |-> 0, upload |-> NoProc]
IdleWorker == [pc |-> "idle", task |-> NoTask, exc |-> None]

\* run_redeem_process not called yet
NoRun == [pc |-> "idle", codes |-> <<>>, regions |-> <<>>, idx |-> 0,
          ridx |-> 0, attempt |-> 0, driver |-> FALSE,
          tracker |-> [processed |-> 0, successful |-> 0, failed |-> 0],
          result |-> None,
          report |-> [success_count |-> 0, failed_count |-> 0,
                      total_count |-> 0]]
NoFiles == [code_file |-> <<>>, success |-> <<>>, invalid |-> <<>>]
NoHist == [calls |-> 0, logins |-> 0, drivers |-> 0, timed_out |-> FALSE,
           session |-> FALSE, region_input |-> <<>>, android_version |-> None,
           outcome |-> <<>>, called |-> <<>>, log |-> <<>>, logcode |-> 0]

\* a run_redeem_process call not started: the codes it got through, and
\* whether cancel_redeem_process was called for it
NoJob == [pc |-> "idle", checked |-> 0, requested |-> FALSE]

\* no call of the remote service made yet
NoResponse == [kind |-> "none", msg |-> [is |-> "missing", text |-> {}]]

Init ==
    /\ backend \in Backends
    /\ users = [u \in Users |-> NoUser]
    /\ topups = [o \in OrderIds |-> NoTopup]
    /\ wh = [p \in WhProcs |-> IdleWh]
    /\ msg = [p \in MsgProcs |-> IdleMsg]
    /\ adm = [p \in AdmProcs |-> IdleAdm]
    /\ call = [p \in Procs |-> NoCall]
    /\ loopOwner = NoProc
    /\ user_data = [u \in Users |-> "none"]
    /\ login_queue = <<>>
    /\ temp_files = [u \in Users |-> NoProc]
    /\ creditCount = [o \in OrderIds |-> 0]
    /\ ledgerSum = [u \in Users |-> [credit |-> 0, debit |-> 0]]
    /\ workers = [w \in WorkerIds |-> IdleWorker]
    /\ threads = [p \in MsgProcs |-> "none"]
    /\ put_log = <<>>
    /\ get_log = <<>>
    /\ run = NoRun
    /\ cancel_flag = FALSE
    /\ files = NoFiles
    /\ rhist = NoHist
    /\ sink_raises = FALSE
    /\ jobs = [w \in WorkerIds |-> NoJob]
    /\ response = NoResponse

\* ------------------------------------------------------------ scheduling
\* A thread of the webhook server runs whenever it likes; a coroutine runs
\* only while no other coroutine is between two of its awaits.
LoopFree(p) == p \in WhProcs \/ loopOwner \in {NoProc, p}

\* the debit run off the loop: coroutines resumed while another one runs
LoopIdleAlways == TRUE

\* A coroutine is resumed only when the loop runs no other coroutine.
LoopIdle == loopOwner = NoProc

\* Slots of one kind are taken in index order.
EarlierStarted(p, tbl, set) ==
    \A q \in set : q[2] < p[2] => tbl[q].pc # "idle"

\* ------------------------------------------------------------ the ledger
\* get_balance: the row's balance, after creating the row when absent
GetBalance(tbl, u) == EnsureUser(tbl, u)[u].balance

Insufficient(current_balance, amount) == current_balance < amount

StartCall(p, op, u, amount, tag) ==
    call' = [call EXCEPT ![p] = [NoCall EXCEPT !.op = op, !.pc = "get",
                                 !.user_id = u, !.amount = amount,
                                 !.tag = tag, !.attempt = 1]]

Return(p, value) ==
    call' = [call EXCEPT ![p].pc = "ret", ![p].ret = value]

Credited(p) ==
    /\ ledgerSum' = [ledgerSum EXCEPT ![call[p].user_id].credit =
                                          @ + call[p].amount]
    /\ creditCount' = IF call[p].tag \in OrderIds
                      THEN [creditCount EXCEPT ![call[p].tag] = @ + 1]
                      ELSE creditCount

\* database.py add_balance: one write transaction
SqliteAddBalance(p) ==
    LET u == call[p].user_id
        amount == call[p].amount
        row == EnsureUser(users, u)[u]
    IN  /\ backend = "sqlite"
        /\ call[p].op = "add_balance" /\ call[p].pc = "get"
        /\ \/ /\ users' = [users EXCEPT ![u] =
                     [row EXCEPT !.balance = @ + amount,
                                 !.total_topup = @ + amount]]
              /\ Return(p, "ok")
              /\ Credited(p)
           \/ /\ Return(p, "raise")
              /\ UNCHANGED <<users, ledgerSum, creditCount>>

\* database_supabase.py add_balance: get_balance, select total_topup, update;
\* retry_db_operation(max_attempts=3) runs it again when it raises
SupabaseAddBalance(p) ==
    LET u == call[p].user_id
        amount == call[p].amount
    IN  /\ backend = "supabase"
        /\ call[p].op = "add_balance"
        /\ \/ /\ call[p].pc = "get"
              /\ users' = EnsureUser(users, u)
              /\ call' = [call EXCEPT ![p].pc = "aux",
                                      ![p].current_balance = GetBalance(users, u)]
              /\ UNCHANGED <<ledgerSum, creditCount>>
           \/ /\ call[p].pc = "aux"
              /\ call' = [call EXCEPT ![p].pc = "write",
                                      ![p].aux = users[u].total_topup]
              /\ UNCHANGED <<users, ledgerSum, creditCount>>
           \/ /\ call[p].pc = "write"
              /\ users' = [users EXCEPT
                     ![u].balance = call[p].current_balance + amount,
                     ![u].total_topup = call[p].aux + amount]
              /\ Return(p, "ok")
              /\ Credited(p)
           \/ /\ call[p].pc = "write"
              /\ IF call[p].attempt < MAX_ATTEMPTS
                 THEN call' = [call EXCEPT ![p].pc = "get",
                                           ![p].attempt = @ + 1]
                 ELSE Return(p, "raise")
              /\ UNCHANGED <<users, ledgerSum, creditCount>>

Debited(p) ==
    ledgerSum' = [ledgerSum EXCEPT ![call[p].user_id].debit =
                                       @ + call[p].amount]

\* database.py deduct_balance: SELECT balance, then UPDATE balance - ?
SqliteDeductBalance(p) ==
    LET u == call[p].user_id
        amount == call[p].amount
    IN  /\ backend = "sqlite"
        /\ call[p].op = "deduct_balance"
        /\ \/ /\ call[p].pc = "get"
              /\ IF ~users[u].present
                 THEN Return(p, "False")
                 ELSE IF Insufficient(users[u].balance, amount)
                 THEN Return(p, "False")
                 ELSE call' = [call EXCEPT ![p].pc = "write",
                                  ![p].current_balance = users[u].balance]
              /\ UNCHANGED <<users, ledgerSum>>
           \/ /\ call[p].pc = "write"
              /\ users' = [users EXCEPT ![u].balance = @ - amount,
                                        ![u].total_spent = @ + amount]
              /\ Return(p, "True")
              /\ Debited(p)

\* database_supabase.py deduct_balance: get_balance, select total_spent,
\* then update with the values computed from what was read
SupabaseDeductBalance(p) ==
    LET u == call[p].user_id
        amount == call[p].amount
    IN  /\ backend = "supabase"
        /\ call[p].op = "deduct_balance"
        /\ \/ /\ call[p].pc = "get"
              /\ users' = EnsureUser(users, u)
              /\ IF Insufficient(GetBalance(users, u), amount)
                 THEN Return(p, "False")
                 ELSE call' = [call EXCEPT ![p].pc = "aux",
                                  ![p].current_balance = GetBalance(users, u)]
              /\ UNCHANGED ledgerSum
           \/ /\ call[p].pc = "aux"
              /\ call' = [call EXCEPT ![p].pc = "write",
                                      ![p].aux = users[u].total_spent]
              /\ UNCHANGED <<users, ledgerSum>>
           \/ /\ call[p].pc = "write"
              /\ users' = [users EXCEPT
                     ![u].balance = call[p].current_balance - amount,
                     ![u].total_spent = call[p].aux + amount]
              /\ Return(p, "True")
              /\ Debited(p)

add_balance(p) ==
    /\ LoopFree(p)
    /\ SqliteAddBalance(p) \/ SupabaseAddBalance(p)
    /\ UNCHANGED <<workerVars, redeemVars, put_log, backend, topups, wh, msg, adm, loopOwner, user_data,
                   login_queue, temp_files>>

deduct_balance(p) ==
    /\ LoopFree(p)
    /\ SqliteDeductBalance(p) \/ SupabaseDeductBalance(p)
    /\ UNCHANGED <<workerVars, redeemVars, put_log, backend, topups, wh, msg, adm, loopOwner, user_data,
                   login_queue, temp_files, creditCount>>

\* database.py / database_supabase.py create_topup, called by the top-up
\* modal of bot.py once the provider has created the charge
create_topup(u, o, amount) ==
    /\ LoopIdle
    /\ ~topups[o].present
    /\ amount >= MIN_TOPUP_AMOUNT
    /\ users' = EnsureUser(users, u)
    /\ topups' = [topups EXCEPT ![o] = [present |-> TRUE, user_id |-> u,
                                        amount |-> amount, status |-> "pending"]]
    /\ UNCHANGED <<workerVars, redeemVars, put_log, backend, wh, msg, adm, call, loopOwner, user_data,
                   login_queue, temp_files, creditCount, ledgerSum>>

\* ------------------------------------------------- webhook_server.py
InFlight(p) == wh[p].pc \notin {"idle", "done"}

Respond(p, code) ==
    wh' = [wh EXCEPT ![p].pc = "done", ![p].resp = code, ![p].topup = NoTopup]

\* request.get_json() and parse_webhook_notification: no shared state read
WebhookReceive(p, n) ==
    LET parsed == parse_webhook_notification(n.body, SERVER_KEY)
    IN  /\ wh[p].pc = "idle"
        /\ EarlierStarted(p, wh, WhProcs)
        /\ IF n.body.keys = {}
           THEN wh' = [wh EXCEPT ![p].pc = "done", ![p].resp = 400,
                                 ![p].origin = n.origin]
           ELSE IF ~parsed.valid
           THEN wh' = [wh EXCEPT ![p].pc = "done", ![p].resp = 400,
                                 ![p].origin = n.origin]
           ELSE wh' = [wh EXCEPT ![p].pc = "lookup", ![p].origin = n.origin,
                                 ![p].order_id = OrderOf(parsed.order_id),
                                 ![p].status = parsed.status]
        /\ UNCHANGED <<workerVars, redeemVars, put_log, backend, users, topups, msg, adm, call, loopOwner,
                       user_data, login_queue, temp_files, creditCount,
                       ledgerSum>>

\* the lookup taken to find a row for every order_id
TopupFoundAlways(tbl, o) == TRUE

\* if not topup: get_topup_by_order_id returned a row
TopupFound(tbl, o) == tbl[o].present

\* topup = get_topup_by_order_id(order_id); 404 when there is no row
WebhookLookup(p) ==
    /\ wh[p].pc = "lookup"
    /\ IF ~TopupFound(topups, wh[p].order_id)
       THEN Respond(p, 404)
       ELSE wh' = [wh EXCEPT ![p].pc = "update",
                             ![p].topup = topups[wh[p].order_id]]
    /\ UNCHANGED <<workerVars, redeemVars, put_log, backend, users, topups, msg, adm, call, loopOwner,
                   user_data, login_queue, temp_files, creditCount,
                   ledgerSum>>

\* The row read before the update decides whether to credit
ShouldCredit(status, topup) == status = "success" /\ topup.status # "success"

\* database_supabase.py update_topup_status: writes the status whatever the
\* stored one is
UpdateTopupStatus(tbl, o, status) == [tbl EXCEPT ![o].status = status]

\* update_topup_status(order_id, status, str(notification)), then the test
\* of status and of the row read by the lookup.  database.py declares
\* update_topup_status(order_id, status): the call raises TypeError there.
WebhookUpdate(p) ==
    /\ wh[p].pc = "update"
    /\ IF backend = "sqlite"
       THEN /\ Respond(p, 500)
            /\ UNCHANGED <<topups, call>>
       ELSE /\ topups' = UpdateTopupStatus(topups, wh[p].order_id, wh[p].status)
            /\ IF ShouldCredit(wh[p].status, wh[p].topup)
               THEN /\ wh' = [wh EXCEPT ![p].pc = "credit"]
                    /\ StartCall(p, "add_balance", wh[p].topup.user_id,
                                 wh[p].topup.amount, wh[p].order_id)
               ELSE /\ Respond(p, 200)
                    /\ UNCHANGED call
    /\ UNCHANGED <<workerVars, redeemVars, put_log, backend, users, msg, adm, loopOwner, user_data,
                   login_queue, temp_files, creditCount, ledgerSum>>

\* add_balance returned: 200, or 500 from the except clause when it raised
WebhookCredited(p) ==
    /\ wh[p].pc = "credit"
    /\ call[p].pc = "ret"
    /\ Respond(p, IF call[p].ret = "raise" THEN 500 ELSE 200)
    /\ call' = [call EXCEPT ![p] = NoCall]
    /\ UNCHANGED <<workerVars, redeemVars, put_log, backend, users, topups, msg, adm, loopOwner, user_data,
                   login_queue, temp_files, creditCount, ledgerSum>>

\* ------------------------------------------------- admin addbalance
\* bot.py admin_addbalance / admin_commands.py add_balance_admin
AdminStart(p, u, amount) ==
    /\ adm[p].pc = "idle"
    /\ EarlierStarted(p, adm, AdmProcs)
    /\ LoopIdle
    /\ amount > 0
    /\ adm' = [adm EXCEPT ![p].pc = "credit", ![p].user_id = u,
                          ![p].amount = amount]
    /\ StartCall(p, "add_balance", u, amount, 0)
    /\ loopOwner' = p
    /\ UNCHANGED <<workerVars, redeemVars, put_log, backend, users, topups, wh, msg, user_data, login_queue,
                   temp_files, creditCount, ledgerSum>>

AdminCredited(p) ==
    /\ adm[p].pc = "credit"
    /\ call[p].pc = "ret"
    /\ adm' = [adm EXCEPT ![p].pc = "done",
                          ![p].outcome = IF call[p].ret = "raise"
                                         THEN "error" ELSE "added"]
    /\ call' = [call EXCEPT ![p] = NoCall]
    /\ loopOwner' = NoProc
    /\ UNCHANGED <<workerVars, redeemVars, put_log, backend, users, topups, wh, msg, user_data, login_queue,
                   temp_files, creditCount, ledgerSum>>

\* ------------------------------------------------- bot.py parameter form
\* RedeemModal.on_submit stores the account data; each user fills the form
\* once, so the dict an upload handler holds is the one in user_data
SubmitModal(u) ==
    /\ LoopIdle
    /\ user_data[u] = "none"
    /\ user_data' = [user_data EXCEPT ![u] = "awaiting_region"]
    /\ UNCHANGED <<workerVars, redeemVars, put_log, backend, users, topups, wh, msg, adm, call, loopOwner,
                   login_queue, temp_files, creditCount, ledgerSum>>

\* RegionSelect.callback adds the "region" key
SelectRegion(u) ==
    /\ LoopIdle
    /\ user_data[u] = "awaiting_region"
    /\ user_data' = [user_data EXCEPT ![u] = "ready_for_upload"]
    /\ UNCHANGED <<workerVars, redeemVars, put_log, backend, users, topups, wh, msg, adm, call, loopOwner,
                   login_queue, temp_files, creditCount, ledgerSum>>

\* ------------------------------------------------- bot.py on_message
Finish(p, outcome) == msg' = [msg EXCEPT ![p].pc = "done", ![p].outcome = outcome]

\* the test of user_balance against total_cost made before the debit
BalanceTooLow(user_balance, total_cost) == user_balance < total_cost

TotalCost(code_count) == code_count * REDEEM_COST_PER_CODE

\* An attachment arrives in the user's redeem channel; up to attachment.read()
MsgStart(p, u, txt) ==
    /\ msg[p].pc = "idle"
    /\ EarlierStarted(p, msg, MsgProcs)
    /\ LoopIdle
    /\ IF user_data[u] = "none"
       THEN msg' = [msg EXCEPT ![p].pc = "done", ![p].user_id = u,
                               ![p].outcome = "no_params"]
       ELSE IF ~txt
       THEN msg' = [msg EXCEPT ![p].pc = "done", ![p].user_id = u,
                               ![p].outcome = "not_txt"]
       ELSE msg' = [msg EXCEPT ![p].pc = "reading", ![p].user_id = u]
    /\ UNCHANGED <<workerVars, redeemVars, put_log, backend, users, topups, wh, adm, call, loopOwner, user_data,
                   login_queue, temp_files, creditCount, ledgerSum>>

\* The content is read: count the codes, compute the cost, get_balance, and
\* call deduct_balance when the balance read covers the cost
MsgRead(p, code_count) ==
    LET u == msg[p].user_id
        total_cost == TotalCost(code_count)
        user_balance == GetBalance(users, u)
    IN  /\ msg[p].pc = "reading"
        /\ LoopIdle
        /\ IF code_count = 0
           THEN Finish(p, "empty") /\ UNCHANGED <<users, call, loopOwner>>
           ELSE IF code_count > MAX_CODES_PER_UPLOAD
           THEN Finish(p, "too_many") /\ UNCHANGED <<users, call, loopOwner>>
           ELSE /\ users' = EnsureUser(users, u)
                /\ IF BalanceTooLow(user_balance, total_cost)
                   THEN /\ msg' = [msg EXCEPT ![p].pc = "done",
                                       ![p].code_count = code_count,
                                       ![p].total_cost = total_cost,
                                       ![p].outcome = "insufficient"]
                        /\ UNCHANGED <<call, loopOwner>>
                   ELSE /\ msg' = [msg EXCEPT ![p].pc = "debit",
                                       ![p].code_count = code_count,
                                       ![p].total_cost = total_cost]
                        /\ StartCall(p, "deduct_balance", u, total_cost, 0)
                        /\ loopOwner' = p
        /\ UNCHANGED <<workerVars, redeemVars, put_log, backend, topups, wh, adm, user_data, login_queue,
                       temp_files, creditCount, ledgerSum>>

\* the result of deduct_balance not tested
DebitAcceptedIgnored(ret) == TRUE

\* if not deduct_balance(...): return
DebitAccepted(ret) == ret = "True"

\* deduct_balance returned; on True the handler awaits attachment.save
MsgDebited(p) ==
    /\ msg[p].pc = "debit"
    /\ call[p].pc = "ret"
    /\ IF DebitAccepted(call[p].ret)
       THEN msg' = [msg EXCEPT ![p].pc = "saving", ![p].debited = TRUE]
       ELSE Finish(p, "payment_failed")
    /\ call' = [call EXCEPT ![p] = NoCall]
    /\ loopOwner' = NoProc
    /\ UNCHANGED <<workerVars, redeemVars, put_log, backend, users, topups, wh, adm, user_data, login_queue,
                   temp_files, creditCount, ledgerSum>>

\* attachment.save(code_temp_<user id>.txt) writes the file, or raises
MsgSave(p, ok) ==
    /\ msg[p].pc = "saving"
    /\ LoopIdle
    /\ IF ok
       THEN /\ temp_files' = [temp_files EXCEPT ![msg[p].user_id] = p]
            /\ msg' = [msg EXCEPT ![p].pc = "saved"]
       ELSE /\ Finish(p, "error")
            /\ UNCHANGED temp_files
    /\ UNCHANGED <<workerVars, redeemVars, put_log, backend, users, topups, wh, adm, call, loopOwner, user_data,
                   login_queue, creditCount, ledgerSum>>

\* login_queue.put({... "region": user_info["region"] ...}); KeyError when
\* the region was never selected
MsgEnqueue(p) ==
    LET u == msg[p].user_id
    IN  /\ msg[p].pc = "saved"
        /\ LoopIdle
        /\ IF user_data[u] = "ready_for_upload"
           THEN /\ login_queue' = Append(login_queue,
                       [user_id |-> u, code_file |-> u, upload |-> p])
                /\ put_log' = Append(put_log,
                       [user_id |-> u, code_file |-> u, upload |-> p])
                /\ Finish(p, "queued")
           ELSE /\ Finish(p, "error")
                /\ UNCHANGED <<login_queue, put_log>>
        /\ UNCHANGED <<workerVars, redeemVars, backend, users, topups, wh, adm, call, loopOwner,
                       user_data, temp_files, creditCount, ledgerSum>>

\* ------------------------------------------------- bot.py login_worker
\* the queue handing out its newest item
QueueGetLast(q) == [item |-> q[Len(q)], rest |-> SubSeq(q, 1, Len(q) - 1)]

\* asyncio.Queue.get: the oldest item
QueueGet(q) == [item |-> Head(q), rest |-> Tail(q)]

ExceptionKinds == {"TypeError", "TimeoutError", "HTTPException"}

\* no exception caught by the clause
IsExceptionNever(e) == FALSE

\* except Exception: every exception raised here derives from Exception
IsException(e) == e \in ExceptionKinds

\* task = await login_queue.get() and the code up to the await of wait_for:
\* cleanup_old_session_files removes code_temp_<user id>.txt, and
\* run_in_executor starts login_task in a thread
WorkerGet(w) ==
    LET got == QueueGet(login_queue)
        task == got.item
    IN  /\ workers[w].pc = "idle"
        /\ LoopIdle
        /\ login_queue # <<>>
        /\ login_queue' = got.rest
        /\ get_log' = Append(get_log, task)
        /\ temp_files' = [temp_files EXCEPT ![task.user_id] = NoProc]
        /\ workers' = [workers EXCEPT ![w] = [pc |-> "waiting", task |-> task,
                                              exc |-> None]]
        /\ threads' = [threads EXCEPT ![task.upload] = "running"]
        /\ UNCHANGED <<redeemVars, put_log, backend, users, topups, wh, msg,
                       adm, call, loopOwner, user_data, creditCount, ledgerSum>>

Awaited(p) == \E w \in WorkerIds : /\ workers[w].pc = "waiting"
                                   /\ workers[w].task.upload = p

\* login_task: run_redeem_process(..., session_files=session_files) raises
\* TypeError, run_redeem_process declares no such parameter.  The exception
\* is kept in the future when a worker still awaits it.
LoginTaskRaise(p) ==
    /\ threads[p] = "running"
    /\ threads' = [threads EXCEPT ![p] = IF Awaited(p) THEN "raised" ELSE "none"]
    /\ UNCHANGED <<workers, get_log, redeemVars, put_log, backend, users,
                   topups, wh, msg, adm, call, loopOwner, user_data,
                   login_queue, temp_files, creditCount, ledgerSum>>

\* except Exception as e: the worker starts reporting the error
WorkerCatch(w) ==
    /\ workers[w].pc = "waiting"
    /\ threads[workers[w].task.upload] = "raised"
    /\ LoopIdle
    /\ workers' = [workers EXCEPT ![w].pc = "sending", ![w].exc = "TypeError"]
    /\ threads' = [threads EXCEPT ![workers[w].task.upload] = "none"]
    /\ UNCHANGED <<get_log, redeemVars, put_log, backend, users, topups, wh,
                   msg, adm, call, loopOwner, user_data, login_queue,
                   temp_files, creditCount, ledgerSum>>

\* except asyncio.TimeoutError: wait_for gave up after 1800 s; the thread
\* of the executor is not stopped
WorkerTimeout(w) ==
    /\ workers[w].pc = "waiting"
    /\ threads[workers[w].task.upload] = "running"
    /\ LoopIdle
    /\ workers' = [workers EXCEPT ![w].pc = "sending",
                                  ![w].exc = "TimeoutError"]
    /\ UNCHANGED <<threads, get_log, redeemVars, put_log, backend, users,
                   topups, wh, msg, adm, call, loopOwner, user_data,
                   login_queue, temp_files, creditCount, ledgerSum>>

\* await safe_send returned, or raised HTTPException after its retries; the
\* finally clause removes the code file and calls task_done; an exception
\* leaving the inner try reaches the outer except clause
WorkerSent(w, ok) ==
    /\ workers[w].pc = "sending"
    /\ LoopIdle
    /\ temp_files' = [temp_files EXCEPT ![workers[w].task.user_id] = NoProc]
    /\ workers' = [workers EXCEPT ![w] =
           IF ok THEN IdleWorker
           ELSE IF IsException("HTTPException")
           THEN [pc |-> "cooldown", task |-> NoTask, exc |-> "HTTPException"]
           ELSE [pc |-> "dead", task |-> NoTask, exc |-> "HTTPException"]]
    /\ UNCHANGED <<threads, get_log, redeemVars, put_log, backend, users,
                   topups, wh, msg, adm, call, loopOwner, user_data,
                   login_queue, creditCount, ledgerSum>>

\* the sleep that never ends
WorkerCooldownNever(w) ==
    /\ workers[w].pc = "cooldown"
    /\ FALSE
    /\ UNCHANGED vars

\* await asyncio.sleep(5) is over: the loop takes the next task
WorkerCooldown(w) ==
    /\ workers[w].pc = "cooldown"
    /\ LoopIdle
    /\ workers' = [workers EXCEPT ![w] = IdleWorker]
    /\ UNCHANGED <<threads, get_log, redeemVars, put_log, backend, users,
                   topups, wh, msg, adm, call, loopOwner, user_data,
                   login_queue, temp_files, creditCount, ledgerSum>>

\* ------------------------------------------------- redeem_core.py
MAX_LOGIN_RETRY == 3
MAX_REDEEM_RETRY_PER_REGION == 2
MaxCodes == 2       \* lines of a code file

REGION_MAP == {"hk2", "hk", "th", "sg", "tw", "us"}
ANDROID_VERSIONS == {"10.0", "15.0", "8.1", "12.0"}

\* Inputs of run_redeem_process.  An email is its length and whether it
\* holds '@' and '.'; a password is its length; a region input is the list
\* of its space-separated words; a code is a number, 0 a malformed line.
Emails == {[len |-> 12, at |-> TRUE, dot |-> TRUE],
           [len |-> 12, at |-> FALSE, dot |-> TRUE]}
Passwords == {8, 3}
RegionInputs == {<<"hk">>, <<"HK", "sg">>, <<"xx">>, <<"hk", "xx">>}
AndroidInputs == {"10.0", "9.0"}
CodeValues == {0, 1, 2}
CodeFiles == UNION {[1..n -> CodeValues] : n \in 0..MaxCodes}
RemoteOutcomes == {"success", "invalid", "unknown", "timeout"}

\* validate_email / validate_password: TRUE when no ValidationError is raised
validate_email(email) ==
    /\ ~(email.len = 0 \/ ~email.at \/ ~email.dot)
    /\ ~(email.len < 5 \/ email.len > 100)

validate_password(password) ==
    /\ ~(password = 0 \/ password < 6)
    /\ ~(password > 100)

\* str.lower on a region word
Lower(word) == IF word = "HK" THEN "hk" ELSE word

\* region_input.lower().strip().split()
SplitRegions(region_input) ==
    [i \in DOMAIN region_input |-> Lower(region_input[i])]

\* every region input accepted
validate_region_unchecked(region_input) == TRUE

\* validate_region: TRUE when it returns the regions, FALSE when it raises
validate_region(region_input) ==
    LET regions == SplitRegions(region_input)
        invalid == {i \in DOMAIN regions : regions[i] \notin REGION_MAP}
    IN  invalid = {}

validate_android_version(version) == version \in ANDROID_VERSIONS

validate_code_format(code) == code # 0

\* load_codes: the well-formed lines of the file, in order
load_codes(file) == SelectSeq(file, validate_code_format)

\* remove_code_safe: the file without every line equal to the code
remove_code_safe(target_code, file) ==
    LET keep(c) == c # target_code IN SelectSeq(file, keep)

\* ProgressTracker.update
TrackerUpdate(tracker, success) ==
    [processed |-> tracker.processed + 1,
     successful |-> tracker.successful + (IF success THEN 1 ELSE 0),
     failed |-> tracker.failed + (IF success THEN 0 ELSE 1)]

Active == run.pc \notin {"idle", "done"}

\* return <result> of run_redeem_process
RunReturn(result) == run' = [run EXCEPT !.pc = "done", !.result = result]

\* An exception raised by progress_callback reaches the clause except
\* Exception of run_redeem_process, which calls progress_callback again: the
\* second exception leaves run_redeem_process
RunRaise == RunReturn("raised")

\* The run ends cancelled, after progress_callback("cancelled", ...)
RunCancelled == IF sink_raises THEN RunRaise ELSE RunReturn("cancelled")

\* run_redeem_process up to the call of login_with_retry: the flag is reset,
\* progress_callback("validation", ...) is called, the inputs are validated
\* and the codes loaded.  progress_callback raises or not for the whole step.
RunStart(email, password, region_input, android_version, file) ==
    LET codes == load_codes(file)
    IN  /\ run.pc = "idle"
        /\ cancel_flag' = FALSE
        /\ files' = [NoFiles EXCEPT !.code_file = file]
        /\ rhist' = [NoHist EXCEPT !.outcome = [i \in DOMAIN codes |-> None],
                                   !.called = [i \in DOMAIN codes |-> 0],
                                   !.region_input = region_input,
                                   !.android_version = android_version]
        /\ IF sink_raises
           THEN RunRaise
           ELSE IF ~(/\ validate_email(email) /\ validate_password(password)
                     /\ validate_region(region_input)
                     /\ validate_android_version(android_version))
           THEN RunReturn("validation_error")
           ELSE IF codes = <<>>
           THEN RunReturn("empty")
           ELSE run' = [NoRun EXCEPT !.pc = "login", !.codes = codes,
                                     !.regions = SplitRegions(region_input)]
        /\ UNCHANGED <<workerVars, sinkVars, response, put_log, backend, users,
                       topups, wh, msg, adm, call, loopOwner, user_data,
                       login_queue, temp_files, creditCount, ledgerSum>>

\* cancel_redeem_process
CancelRedeem ==
    /\ ~cancel_flag
    /\ cancel_flag' = TRUE
    /\ UNCHANGED <<run, files, rhist, workerVars, sinkVars, response, put_log,
                   backend, users, topups, wh, msg, adm, call, loopOwner,
                   user_data, login_queue, temp_files, creditCount,
                   ledgerSum>>

\* The caller's asyncio.wait_for(..., timeout=1800) gives up on the run; the
\* thread executing it is not told
WaitForTimeout ==
    /\ Active
    /\ ~rhist.timed_out
    /\ rhist' = [rhist EXCEPT !.timed_out = TRUE]
    /\ UNCHANGED <<run, files, cancel_flag, workerVars, sinkVars, response, put_log,
                   backend, users, topups, wh, msg, adm, call, loopOwner,
                   user_data, login_queue, temp_files, creditCount,
                   ledgerSum>>

\* everything a job run leaves alone
outsideCall == <<workerVars, sinkVars, put_log, backend, users, topups, wh,
                 msg, adm, call, loopOwner, user_data, login_queue,
                 temp_files, creditCount, ledgerSum>>

outsideRun == <<outsideCall, response>>

\* safe_quit_driver(driver): closes the browser when there is one
QuitDriver(h, driver) == IF driver THEN [h EXCEPT !.drivers = @ - 1] ELSE h

\* a session taken to be present whatever login_with_retry returned
HasSessionAlways(tokens) == TRUE

\* if not user_id_login or not session_id or not uuid
HasSession(tokens) == tokens = "tokens"

\* login_with_retry returned to run_redeem_process
LoginReturned(tokens) ==
    IF HasSession(tokens)
    THEN run' = [run EXCEPT !.pc = "code", !.idx = 1, !.attempt = 0]
    ELSE run' = [run EXCEPT !.pc = "done", !.result = "login_failed"]

\* One turn of the loop of login_with_retry, up to the browser being open:
\* check_cancellation, progress_callback("login", ...), whose exception is
\* caught by except Exception where progress_callback is called again, then
\* initialize_driver, which may raise BrowserError
LoginBegin(init_ok) ==
    /\ run.pc = "login"
    /\ IF cancel_flag
       THEN /\ RunCancelled
            /\ rhist' = QuitDriver(rhist, run.driver)
       ELSE IF sink_raises
       THEN /\ RunRaise
            /\ rhist' = IF run.attempt = MAX_LOGIN_RETRY - 1
                         THEN QuitDriver(rhist, run.driver) ELSE rhist
       ELSE IF init_ok
       THEN /\ run' = [run EXCEPT !.pc = "browser", !.driver = TRUE]
            /\ rhist' = [rhist EXCEPT !.logins = @ + 1, !.drivers = @ + 1]
       ELSE IF run.attempt < MAX_LOGIN_RETRY - 1
       THEN /\ run' = [run EXCEPT !.attempt = @ + 1]
            /\ rhist' = [rhist EXCEPT !.logins = @ + 1]
       ELSE /\ LoginReturned("none")
            /\ rhist' = [rhist EXCEPT !.logins = @ + 1]
    /\ UNCHANGED <<files, cancel_flag, outsideRun>>

\* The rest of the turn: the page is driven and the tokens are read from
\* localStorage (ok), or LoginError / BrowserError / another exception is
\* raised; then the finally clause
LoginEnd(ok) ==
    LET last == run.attempt = MAX_LOGIN_RETRY - 1
    IN  /\ run.pc = "browser"
        /\ IF sink_raises
           THEN /\ RunRaise
                /\ rhist' = IF last \/ cancel_flag
                             THEN QuitDriver(rhist, run.driver) ELSE rhist
           ELSE IF ok
           THEN /\ IF last \/ cancel_flag
                   THEN rhist' = [QuitDriver(rhist, run.driver)
                                    EXCEPT !.session = TRUE]
                   ELSE rhist' = [rhist EXCEPT !.session = TRUE]
                /\ LoginReturned("tokens")
           ELSE IF ~last
           THEN /\ rhist' = QuitDriver(rhist, run.driver)
                /\ run' = [run EXCEPT !.pc = "login", !.driver = FALSE,
                                      !.attempt = @ + 1]
           ELSE /\ rhist' = QuitDriver(rhist, run.driver)
                /\ LoginReturned("none")
        /\ UNCHANGED <<files, cancel_flag, outsideRun>>

\* the loop staying on the same code
NextCodeSame(idx) == idx

\* enumerate(codes, 1): the following code
NextCode(idx) == idx + 1

\* log_success: the code is appended to the success log
log_success(code, log) == Append(log, code)

\* the invalid log left as it is
log_invalid_dropped(code, log) == log

\* log_invalid: the code is appended to the invalid log
log_invalid(code, log) == Append(log, code)

\* The result of try_all_regions handled by run_redeem_process: log, remove
\* the code from the file, count, and go to the next code
FinishCode(result) ==
    LET code == run.codes[run.idx]
    IN  /\ files' = IF result = "success"
                    THEN [files EXCEPT
                            !.success = log_success(code, @),
                            !.code_file = remove_code_safe(code, @)]
                    ELSE IF result = "invalid"
                    THEN [files EXCEPT
                            !.invalid = log_invalid(code, @),
                            !.code_file = remove_code_safe(code, @)]
                    ELSE files
        /\ run' = [run EXCEPT
                     !.tracker = TrackerUpdate(@, result = "success"),
                     !.idx = NextCode(@), !.pc = "code"]

\* for idx, raw_code in enumerate(codes, 1): check_cancellation, then
\* try_all_regions starts; after the last code the run returns its summary
CodeBegin ==
    /\ run.pc = "code"
    /\ IF run.idx > Len(run.codes)
       THEN /\ IF sink_raises THEN RunRaise ELSE RunReturn("complete")
            /\ UNCHANGED rhist
       ELSE IF cancel_flag
       THEN RunCancelled /\ UNCHANGED rhist
       ELSE /\ run' = [run EXCEPT !.pc = "region", !.ridx = 1]
            /\ rhist' = [rhist EXCEPT !.log = <<>>, !.logcode = run.idx]
    /\ UNCHANGED <<files, cancel_flag, outsideRun>>

\* redeem_code_with_retry returned "error": try_all_regions takes the next
\* region
NextRegion == run' = [run EXCEPT !.pc = "region", !.ridx = @ + 1]

\* for region_key in regions: check_cancellation("Region rotation"), whose
\* CancellationError is raised on to run_redeem_process, then
\* progress_callback, whose exception the clause except Exception answers
\* with continue; when the regions are used up progress_callback is called
\* outside the try and try_all_regions returns "error"
RegionBegin ==
    /\ run.pc = "region"
    /\ IF run.ridx > Len(run.regions)
       THEN IF sink_raises
            THEN RunRaise /\ UNCHANGED <<files, rhist>>
            ELSE /\ FinishCode("error")
                 /\ rhist' = [rhist EXCEPT !.outcome[run.idx] = "error"]
       ELSE IF cancel_flag
       THEN RunCancelled /\ UNCHANGED <<files, rhist>>
       ELSE IF sink_raises
       THEN NextRegion /\ UNCHANGED <<files, rhist>>
       ELSE /\ run' = [run EXCEPT !.pc = "attempt", !.attempt = 0]
            /\ UNCHANGED <<files, rhist>>
    /\ UNCHANGED <<cancel_flag, outsideRun>>

\* for attempt in range(max_attempts): check_cancellation("Redeem") inside
\* the try, whose CancellationError the clause except Exception turns into
\* return "error"; otherwise session.post is sent
AttemptBegin ==
    /\ run.pc = "attempt"
    /\ IF cancel_flag
       THEN NextRegion /\ UNCHANGED rhist
       ELSE /\ run' = [run EXCEPT !.pc = "call"]
            /\ rhist' = [rhist EXCEPT !.calls = @ + 1,
                                      !.called[run.idx] = @ + 1]
    /\ UNCHANGED <<files, cancel_flag, outsideRun>>

\* a response of "invalid" or "used" not taken as a result
IsTerminalSuccessOnly(resp) == resp = "success"

\* return "success" / return "invalid" of redeem_code_with_retry
IsTerminal(resp) == resp \in {"success", "invalid"}

\* the region given up after every call
MayRetryNever(attempt) == FALSE

\* if attempt < max_attempts - 1
MayRetry(attempt) == attempt < MAX_REDEEM_RETRY_PER_REGION - 1

\* progress_callback starts to raise (bot.py: run_coroutine_threadsafe on a
\* loop that is closing) or works again
SinkBreak ==
    /\ ~sink_raises
    /\ sink_raises' = TRUE
    /\ UNCHANGED <<run, cancel_flag, files, rhist, jobs, response, workerVars, put_log,
                   backend, users, topups, wh, msg, adm, call, loopOwner,
                   user_data, login_queue, temp_files, creditCount,
                   ledgerSum>>

SinkRepair ==
    /\ sink_raises
    /\ sink_raises' = FALSE
    /\ UNCHANGED <<run, cancel_flag, files, rhist, jobs, response, workerVars, put_log,
                   backend, users, topups, wh, msg, adm, call, loopOwner,
                   user_data, login_queue, temp_files, creditCount,
                   ledgerSum>>

\* session.post returned or timed out, and the response is classified; after
\* "success" or "invalid" try_all_regions calls progress_callback inside the
\* try, and the clause except Exception answers its exception with continue.
\* An unknown message, a timeout and a RequestException are retried below
\* the cap; any other exception returns "error" at once.
Classified(resp) ==
    /\ run.pc = "call"
    /\ IF IsTerminal(resp) /\ ~sink_raises
       THEN /\ FinishCode(resp)
            /\ rhist' = [rhist EXCEPT
                   !.outcome[run.idx] = resp,
                   !.log = Append(@, [region |-> run.regions[run.ridx],
                                      resp |-> resp])]
       ELSE /\ IF ~IsTerminal(resp) /\ resp # "exception"
                  /\ MayRetry(run.attempt)
               THEN run' = [run EXCEPT !.pc = "attempt", !.attempt = @ + 1]
               ELSE NextRegion
            /\ rhist' = [rhist EXCEPT
                   !.log = Append(@, [region |-> run.regions[run.ridx],
                                      resp |-> resp])]
            /\ UNCHANGED files
    /\ UNCHANGED <<cancel_flag, outsideCall>>

\* The call ended in the way resp, whatever the response was
RemoteReturn(resp) == Classified(resp) /\ UNCHANGED response

\* ------------------------------------- responses of the remote service
\* A message text is the set of the patterns it contains; "Assigned" is
\* looked for in the text as sent, the others in the lower-cased text.
Patterns == {"Assigned", "success", "invalid", "used", "not found",
             "already redeemed", "no device"}

Texts == {{}} \cup {{t} : t \in Patterns} \cup {{"Assigned", "success"}}

\* json_resp.get('resultMsg', ''): a text, the key absent, or the value null
Text(t) == [is |-> "text", text |-> t]
Missing == [is |-> "missing", text |-> {}]
Null == [is |-> "null", text |-> {}]

\* What session.post and response.json() can produce: a JSON object, a
\* JSON value that is no object, a body that is no JSON (a
\* RequestException or a ValueError, depending on the requests release),
\* requests.exceptions.Timeout, another RequestException
Responses ==
    {[kind |-> "json", msg |-> m] :
        m \in {Text(t) : t \in Texts} \cup {Missing, Null}}
    \cup {[kind |-> k, msg |-> Missing] :
            k \in {"not_object", "bad_json_request_exception",
                    "bad_json_value_error", "timeout",
                    "request_exception"}}

\* the tests on msg without the final else
ClassifyMessageNoDefault(text) ==
    IF "Assigned" \in text \/ "success" \in text THEN "success"
    ELSE IF "invalid" \in text \/ "used" \in text THEN "invalid"
    ELSE None

\* if 'Assigned' in msg or 'success' in msg.lower() ... elif 'invalid' in
\* msg.lower() or 'used' in msg.lower() ... else
ClassifyMessage(text) ==
    IF "Assigned" \in text \/ "success" \in text THEN "success"
    ELSE IF "invalid" \in text \/ "used" \in text THEN "invalid"
    ELSE "unknown"

\* The try block of redeem_code_with_retry after session.post: the way the
\* attempt ends.  A null resultMsg makes `in` raise TypeError and a value
\* that is no object makes .get raise AttributeError, both caught by except
\* Exception.
ClassifyResponse(r) ==
    IF r.kind = "json"
    THEN IF r.msg = Null THEN "exception" ELSE ClassifyMessage(r.msg.text)
    ELSE IF r.kind = "timeout" THEN "timeout"
    ELSE IF r.kind \in {"request_exception", "bad_json_request_exception"}
    THEN "network"
    ELSE "exception"

\* session.post ended with the response r
RemoteRespond(r) ==
    /\ Classified(ClassifyResponse(r))
    /\ response' = r

\* ------------------------------------- bot.py safe_send_completion
\* session_stats[user_id] as login_worker initialises it; nothing writes to
\* it afterwards
SessionStats(codes) == [success |-> 0, invalid |-> 0, total |-> Len(codes)]

\* dict.get(key, default)
Get(d, key, default) == IF key \in DOMAIN d THEN d[key] ELSE default

\* isinstance(result, dict): run_redeem_process returns a str on every path
IsDict(result) == FALSE

\* the head of safe_send_completion: the counts of the report
CompletionCounts(result, stats) ==
    IF IsDict(result)
    THEN [success_count |-> Get(result, "success", 0),
          failed_count |-> Get(result, "failed", 0),
          total_count |-> Get(result, "total", 0)]
    ELSE [success_count |-> Get(stats, "success", 0),
          failed_count |-> Get(stats, "failed", 0),
          total_count |-> Get(stats, "total", 0)]

\* login_worker got the result of the run before its timeout and awaits
\* safe_send_completion(channel, user_id, result, session_files)
SendCompletion ==
    /\ run.pc = "done"
    /\ run.result # "raised"
    /\ ~rhist.timed_out
    /\ run' = [run EXCEPT !.pc = "reported",
                          !.report = CompletionCounts(run.result,
                                         SessionStats(rhist.called))]
    /\ UNCHANGED <<cancel_flag, files, rhist, outsideRun>>

\* ------------------------------------- job runs of several workers
\* Each worker runs run_redeem_process in a thread of the executor; the runs
\* share the module-level cancellation_manager.  A run is reduced to what it
\* does with the flag.
jobOutside == <<run, files, rhist, sink_raises, response, workerVars, put_log, backend,
                users, topups, wh, msg, adm, call, loopOwner, user_data,
                login_queue, temp_files, creditCount, ledgerSum>>

\* run_redeem_process begins: cancellation_manager.reset()
JobStart(j) ==
    /\ jobs[j].pc = "idle"
    /\ jobs' = [jobs EXCEPT ![j].pc = "running"]
    /\ cancel_flag' = FALSE
    /\ UNCHANGED jobOutside

\* cancel_redeem_process(), called to stop the run j: it takes no argument
JobCancel(j) ==
    /\ jobs[j].pc = "running"
    /\ ~jobs[j].requested
    /\ jobs' = [jobs EXCEPT ![j].requested = TRUE]
    /\ cancel_flag' = TRUE
    /\ UNCHANGED jobOutside

\* One turn of the code loop of run j: check_cancellation and the code is
\* processed; after the last code the run returns its summary
JobStep(j) ==
    /\ jobs[j].pc = "running"
    /\ IF jobs[j].checked = MaxCodes
       THEN jobs' = [jobs EXCEPT ![j].pc = "complete"]
       ELSE IF cancel_flag
       THEN jobs' = [jobs EXCEPT ![j].pc = "cancelled"]
       ELSE jobs' = [jobs EXCEPT ![j].checked = @ + 1]
    /\ UNCHANGED <<cancel_flag, jobOutside>>

\* ------------------------------------------------------------ behaviours
\* Threads of the webhook server handling requests at the same time
ConcWh == {<<"wh", i>> : i \in 1..MaxConc}

WebhookNext ==
    \/ \E p \in ConcWh, n \in Notifications : WebhookReceive(p, n)
    \/ \E p \in ConcWh : WebhookLookup(p)
    \/ \E p \in ConcWh : WebhookUpdate(p)
    \/ \E p \in ConcWh : WebhookCredited(p)
    \/ \E p \in ConcWh : add_balance(p)
    \/ \E u \in Users, o \in OrderIds, a \in TopupAmounts : create_topup(u, o, a)

SpecWebhook == Init /\ [][WebhookNext]_vars

\* The provider delivers one notification after another: a request arrives
\* only when the one before has been answered
NoneInFlight == \A q \in WhProcs : ~InFlight(q)

WebhookRedeliver(p, n) == NoneInFlight /\ WebhookReceive(p, n)

ReplayNext ==
    \/ \E p \in WhProcs, n \in Notifications : WebhookRedeliver(p, n)
    \/ \E p \in WhProcs : WebhookLookup(p)
    \/ \E p \in WhProcs : WebhookUpdate(p)
    \/ \E p \in WhProcs : WebhookCredited(p)
    \/ \E p \in WhProcs : add_balance(p)
    \/ \E u \in Users, o \in OrderIds, a \in TopupAmounts : create_topup(u, o, a)

SpecReplay == Init /\ [][ReplayNext]_vars

\* The ledger side: uploads that debit, admin credits, and one paid top-up
\* whose credit runs on a webhook thread
LedgerWh == {<<"wh", 1>>}
PaidNotifications ==
    {n \in Notifications :
        n.origin = "signed" /\ n.body.get.transaction_status = "settlement"}

LedgerNext ==
    \/ \E p \in LedgerWh, n \in PaidNotifications : WebhookReceive(p, n)
    \/ \E p \in LedgerWh : WebhookLookup(p)
    \/ \E p \in LedgerWh : WebhookUpdate(p)
    \/ \E p \in LedgerWh : WebhookCredited(p)
    \/ \E p \in LedgerWh \cup AdmProcs : add_balance(p)
    \/ \E p \in MsgProcs : deduct_balance(p)
    \/ \E u \in Users, o \in OrderIds, a \in TopupAmounts : create_topup(u, o, a)
    \/ \E p \in AdmProcs, u \in Users, a \in AdminAmounts : AdminStart(p, u, a)
    \/ \E p \in AdmProcs : AdminCredited(p)
    \/ \E u \in Users : SubmitModal(u)
    \/ \E u \in Users : SelectRegion(u)
    \/ \E p \in MsgProcs, u \in Users, txt \in BOOLEAN : MsgStart(p, u, txt)
    \/ \E p \in MsgProcs, c \in CodeCounts : MsgRead(p, c)
    \/ \E p \in MsgProcs : MsgDebited(p)
    \/ \E p \in MsgProcs, ok \in BOOLEAN : MsgSave(p, ok)
    \/ \E p \in MsgProcs : MsgEnqueue(p)

SpecLedger == Init /\ [][LedgerNext]_vars

\* The worker pool fed by uploads billed against an admin credit
WorkersNext ==
    \/ \E p \in AdmProcs, u \in Users, a \in AdminAmounts : AdminStart(p, u, a)
    \/ \E p \in AdmProcs : add_balance(p)
    \/ \E p \in AdmProcs : AdminCredited(p)
    \/ \E u \in Users : SubmitModal(u)
    \/ \E u \in Users : SelectRegion(u)
    \/ \E p \in MsgProcs, u \in Users, txt \in BOOLEAN : MsgStart(p, u, txt)
    \/ \E p \in MsgProcs, c \in CodeCounts : MsgRead(p, c)
    \/ \E p \in MsgProcs : deduct_balance(p)
    \/ \E p \in MsgProcs : MsgDebited(p)
    \/ \E p \in MsgProcs, ok \in BOOLEAN : MsgSave(p, ok)
    \/ \E p \in MsgProcs : MsgEnqueue(p)
    \/ \E w \in WorkerIds : WorkerGet(w)
    \/ \E p \in MsgProcs : LoginTaskRaise(p)
    \/ \E w \in WorkerIds : WorkerCatch(w)
    \/ \E w \in WorkerIds : WorkerTimeout(w)
    \/ \E w \in WorkerIds, ok \in BOOLEAN : WorkerSent(w, ok)
    \/ \E w \in WorkerIds : WorkerCooldown(w)

SpecWorkers == Init /\ [][WorkersNext]_vars

\* The event loop resumes every worker that can go on, a call that holds
\* the loop returns, and the thread of a job run comes to its end
WorkersFairness ==
    /\ \A w \in WorkerIds :
          /\ WF_vars(WorkerGet(w))
          /\ WF_vars(WorkerCatch(w))
          /\ WF_vars(\E ok \in BOOLEAN : WorkerSent(w, ok))
          /\ WF_vars(WorkerCooldown(w))
    /\ \A p \in MsgProcs :
          /\ WF_vars(LoginTaskRaise(p))
          /\ WF_vars(deduct_balance(p))
          /\ WF_vars(MsgDebited(p))
    /\ \A p \in AdmProcs :
          /\ WF_vars(add_balance(p))
          /\ WF_vars(AdminCredited(p))

SpecWorkersFair == Init /\ [][WorkersNext]_vars /\ WorkersFairness

\* The job runner called once, with cancel_redeem_process and the caller's
\* timeout arriving at any moment
RedeemNext ==
    \/ \E email \in Emails, password \in Passwords,
          region_input \in RegionInputs, android_version \in AndroidInputs,
          file \in CodeFiles :
            RunStart(email, password, region_input, android_version, file)
    \/ \E init_ok \in BOOLEAN : LoginBegin(init_ok)
    \/ \E ok \in BOOLEAN : LoginEnd(ok)
    \/ CodeBegin
    \/ RegionBegin
    \/ AttemptBegin
    \/ \E resp \in RemoteOutcomes : RemoteReturn(resp)
    \/ CancelRedeem
    \/ WaitForTimeout

\* The job runner called once and its result reported by the worker
ReportNext ==
    \/ \E email \in Emails, password \in Passwords,
          region_input \in RegionInputs, android_version \in AndroidInputs,
          file \in CodeFiles :
            RunStart(email, password, region_input, android_version, file)
    \/ \E init_ok \in BOOLEAN : LoginBegin(init_ok)
    \/ \E ok \in BOOLEAN : LoginEnd(ok)
    \/ CodeBegin
    \/ RegionBegin
    \/ AttemptBegin
    \/ \E resp \in RemoteOutcomes : RemoteReturn(resp)
    \/ WaitForTimeout
    \/ SendCompletion

\* redeem_core.py imports no database module: one back end is enough
RedeemInit == Init /\ backend = "sqlite"

SpecRedeem == RedeemInit /\ [][RedeemNext]_vars

SpecReport == RedeemInit /\ [][ReportNext]_vars

\* The job runner reporting to a progress sink that may fail at any call
SinkNext ==
    \/ \E email \in Emails, password \in Passwords,
          region_input \in RegionInputs, android_version \in AndroidInputs,
          file \in CodeFiles :
            RunStart(email, password, region_input, android_version, file)
    \/ \E init_ok \in BOOLEAN : LoginBegin(init_ok)
    \/ \E ok \in BOOLEAN : LoginEnd(ok)
    \/ CodeBegin
    \/ RegionBegin
    \/ AttemptBegin
    \/ \E resp \in RemoteOutcomes : RemoteReturn(resp)
    \/ SinkBreak
    \/ SinkRepair

SpecSink == RedeemInit /\ [][SinkNext]_vars

\* Job runs of the workers executing at the same time
CancelNext ==
    \/ \E j \in WorkerIds : JobStart(j)
    \/ \E j \in WorkerIds : JobCancel(j)
    \/ \E j \in WorkerIds : JobStep(j)

SpecCancel == RedeemInit /\ [][CancelNext]_vars

\* The job runner fed with the responses of the remote service, on files
\* of one line at most
ClassifyNext ==
    \/ \E email \in Emails, password \in Passwords,
          region_input \in RegionInputs, android_version \in AndroidInputs,
          file \in {f \in CodeFiles : Len(f) <= 1} :
            RunStart(email, password, region_input, android_version, file)
    \/ \E init_ok \in BOOLEAN : LoginBegin(init_ok)
    \/ \E ok \in BOOLEAN : LoginEnd(ok)
    \/ CodeBegin
    \/ RegionBegin
    \/ AttemptBegin
    \/ \E r \in Responses : RemoteRespond(r)

SpecClassify == RedeemInit /\ [][ClassifyNext]_vars

\* ================================================================ claims
Started == {p \in WhProcs : wh[p].pc # "idle"}

\* Every request received so far was a signed, success-mapped notification
\* for order o that found the top-up row, and all of them are answered.
ReplayedSuccessOnly(o) ==
    /\ Started # {}
    /\ \A p \in Started : /\ wh[p].pc = "done"
                          /\ wh[p].origin = "signed"
                          /\ wh[p].order_id = o
                          /\ wh[p].status = "success"
                          /\ wh[p].resp # 404

\* C1: the same valid success notification for a pending top-up, delivered
\* N >= 1 times one after another, credits the balance by the amount exactly
\* once (balance = 0 + amount afterwards) and every delivery is accepted.
C1_ReplayCreditsOnce ==
    \A o \in OrderIds :
        ReplayedSuccessOnly(o) =>
            /\ users[topups[o].user_id].balance = topups[o].amount
            /\ creditCount[o] = 1
            /\ \A p \in Started : wh[p].resp = 200

\* C2: two success notifications for one order handled at the same time and
\* both accepted credit the user exactly once, never twice.
C2_ConcurrentCreditsOnce ==
    \A o \in OrderIds :
        (\E p, q \in WhProcs :
            /\ p # q
            /\ \A r \in {p, q} : /\ wh[r].pc = "done" /\ wh[r].resp = 200
                                 /\ wh[r].order_id = o
                                 /\ wh[r].status = "success")
        => creditCount[o] = 1

\* C3: whatever notifications are delivered for an order, one after another
\* and in any order of statuses, the order is credited at most once.
C3_CreditedAtMostOnce == \A o \in OrderIds : creditCount[o] <= 1

Quiescent == \A p \in Procs : call[p].op = "none"

\* C4: once every add_balance and deduct_balance call has returned, the
\* balance is the sum of the credits minus the sum of the debits that
\* returned True (users start at 0).
C4_BalanceIsSumOfCalls ==
    \A u \in Users :
        Quiescent => users[u].balance = ledgerSum[u].credit - ledgerSum[u].debit

\* deduct_balance calls of user u that passed the check and have not written
PassedCheck(u) ==
    {p \in Procs : /\ call[p].op = "deduct_balance" /\ call[p].user_id = u
                   /\ call[p].pc \in {"aux", "write"}}

\* C5: every balance is >= 0 in every reachable state, and no two debits of
\* one user are between their balance check and their write at once.
C5_BalanceNeverNegative ==
    \A u \in Users : users[u].balance >= 0 /\ Cardinality(PassedCheck(u)) <= 1

\* A debit has passed its check on a balance that a credit changed since.
C5_Witness ==
    \E u \in Users : \E p \in PassedCheck(u) :
        /\ call[p].pc = "write"
        /\ users[u].balance # call[p].current_balance
        /\ ledgerSum[u].debit > 0

\* C6: deduct_balance on a balance lower than amount returns False and
\* leaves balance, total_spent and total_topup as they were; on a balance
\* >= amount it returns True and the balance goes down by exactly amount.
C6_DebitContract ==
    [][\A p \in MsgProcs :
         LET u == call[p].user_id
             amount == call[p].amount
         IN  /\ (call[p].op = "deduct_balance" /\ call[p].pc = "get"
                 /\ call'[p].pc # "get")
                => /\ (GetBalance(users, u) < amount)
                        <=> (call'[p].pc = "ret" /\ call'[p].ret = "False")
                   /\ users'[u].balance = users[u].balance
                   /\ users'[u].total_spent = users[u].total_spent
                   /\ users'[u].total_topup = users[u].total_topup
             /\ (call[p].op = "deduct_balance" /\ call[p].pc = "write"
                 /\ call'[p].pc = "ret")
                => /\ call'[p].ret = "True"
                   /\ users'[u].balance = users[u].balance - amount
      ]_vars

Queued == {login_queue[i].upload : i \in DOMAIN login_queue}
Rejected(p) == msg[p].outcome \in {"insufficient", "payment_failed"}

\* C7: a Job is on the queue only if deduct_balance(user, codes x cost per
\* code) returned True for its upload; an upload whose cost exceeds the
\* balance is rejected, and the step rejecting it changes neither the
\* balance nor total_spent nor the queue.
C7_DebitBeforeEnqueue ==
    /\ [](\A p \in MsgProcs :
            /\ p \in Queued =>
                 /\ msg[p].debited
                 /\ msg[p].total_cost = msg[p].code_count * REDEEM_COST_PER_CODE
                 /\ ledgerSum[msg[p].user_id].debit >= msg[p].total_cost
            /\ Rejected(p) => ~msg[p].debited /\ p \notin Queued
            /\ Len(login_queue) = Cardinality(Queued))
    /\ [][\A p \in MsgProcs :
            LET u == msg[p].user_id
                cost == msg'[p].total_cost
            IN  /\ (msg[p].pc = "reading" /\ msg'[p].pc # "reading"
                    /\ msg'[p].outcome \notin {"empty", "too_many"}
                    /\ GetBalance(users, u) < cost)
                   => msg'[p].outcome = "insufficient"
                /\ (msg[p].pc = "debit" /\ msg'[p].pc # "debit"
                    /\ call[p].ret = "False")
                   => msg'[p].outcome = "payment_failed"
                /\ (~Rejected(p) /\ Rejected(p)')
                   => /\ users'[u].balance = users[u].balance
                      /\ users'[u].total_spent = users[u].total_spent
                      /\ login_queue' = login_queue
         ]_vars

\* Balance 5000 at 1000 per code: the 4-code upload is billed and queued,
\* leaving 1000, and the following 2-code upload is rejected.
C7_Witness ==
    \E p, q \in MsgProcs :
        /\ msg[p].outcome = "queued" /\ msg[p].code_count = 4
        /\ msg[q].outcome = "insufficient" /\ msg[q].code_count = 2
        /\ users[msg[p].user_id].balance = 1000
        /\ users[msg[p].user_id].total_spent = 4000
        /\ Len(login_queue) = 1

NotAuthentic(p) == wh[p].origin \in {"forged", "incomplete"}

\* C8: a notification whose signature_key is not the SHA-512 of order_id +
\* status_code + gross_amount + server key, or that lacks a required field,
\* is answered 400 at once, and receiving it changes no top-up row and no
\* user row; an answered request does nothing more.
C8_ForgedRejected ==
    /\ [](\A p \in WhProcs :
            NotAuthentic(p) => wh[p].pc = "done" /\ wh[p].resp = 400)
    /\ [][\A p \in WhProcs :
            /\ (wh[p].pc = "idle" /\ NotAuthentic(p)')
               => topups' = topups /\ users' = users
            /\ wh[p].pc = "done" => wh'[p] = wh[p]
         ]_vars

\* A forged and an incomplete notification for a pending top-up were both
\* answered 400 and the top-up is still pending, its user not credited.
C8_Witness ==
    \E p, q \in WhProcs, o \in OrderIds :
        /\ wh[p].origin = "forged" /\ wh[p].resp = 400
        /\ wh[q].origin = "incomplete" /\ wh[q].resp = 400
        /\ topups[o].present /\ topups[o].status = "pending"
        /\ users[topups[o].user_id].balance = 0

\* C9: whenever no notification is being processed, a top-up whose stored
\* status is success has had its amount credited to its user (the half of
\* "success if and only if credited" that keeps paid money from being lost).
C9_SuccessImpliesCredited ==
    NoneInFlight =>
        \A o \in OrderIds :
            topups[o].status = "success"
                => /\ creditCount[o] >= 1
                   /\ users[topups[o].user_id].balance >= topups[o].amount

\* C10: once a top-up's status is success or failed it never changes.
C10_TerminalStatusFinal ==
    [][\A o \in OrderIds :
         topups[o].status \in {"success", "failed"}
             => topups'[o].status = topups[o].status]_vars

\* C11: a validly signed notification whose order_id has no top-up row is
\* answered 404 by the lookup step, which changes no top-up row and no user
\* row, and the request does nothing afterwards.
C11_UnknownOrderNotFound ==
    [][\A p \in WhProcs :
         /\ (wh[p].pc = "lookup" /\ wh'[p].pc # "lookup"
             /\ ~topups[wh[p].order_id].present)
            => /\ wh'[p].pc = "done" /\ wh'[p].resp = 404
               /\ topups' = topups /\ users' = users
         /\ wh[p].resp = 404 => (wh'[p] = wh[p] /\ call'[p] = call[p])
      ]_vars

\* A signed notification was answered 404 and no top-up row exists.
C11_Witness ==
    \E p \in WhProcs :
        /\ wh[p].origin = "signed" /\ wh[p].resp = 404
        /\ \A o \in OrderIds : ~topups[o].present
        /\ \A u \in Users : users[u].balance = 0

Live == {"idle", "waiting", "sending", "cooldown"}

\* C12: every worker stays alive: whatever exception its job run or its
\* report raises, the worker is blocked on the queue, handling a Job or in
\* its cooldown, so MAX_LOGIN_WORKERS workers are alive in every state; a
\* worker that finished reporting or cooling down holds no Job any more.
C12_WorkersNeverExit ==
    /\ [](Cardinality({w \in WorkerIds : workers[w].pc \in Live})
             = MAX_LOGIN_WORKERS)
    /\ [][\A w \in WorkerIds :
            (workers[w].pc \in {"sending", "cooldown"}
             /\ workers'[w] # workers[w])
            => /\ workers'[w].pc \in {"idle", "cooldown"}
               /\ workers'[w].task = NoTask
         ]_vars

\* Both Jobs were taken; one worker is in its cooldown after its report
\* raised, the other is back on the queue after its job run raised.
C12_Witness ==
    /\ Len(get_log) = 2
    /\ \E w1, w2 \in WorkerIds :
        /\ workers[w1].pc = "cooldown"
        /\ workers[w2].pc = "idle"
    /\ \A p \in MsgProcs : threads[p] = "none"

Running == {p \in MsgProcs : threads[p] = "running"}

\* C13: at most MAX_LOGIN_WORKERS job runs execute at a time, and every
\* executing job run belongs to a worker that still holds its Job: no worker
\* is back on the queue while the run it started executes.
C13_OneRunPerWorker ==
    /\ Cardinality(Running) <= MAX_LOGIN_WORKERS
    /\ \A p \in Running :
         \E w \in WorkerIds : workers[w].task.upload = p

\* C14: Jobs leave the queue in the order they were put; every Job put is
\* on the queue or was taken exactly once, and no Job is put twice.
C14_FifoOnce ==
    /\ get_log \o login_queue = put_log
    /\ \A i, j \in DOMAIN put_log : i # j => put_log[i] # put_log[j]
    /\ \A i, j \in DOMAIN get_log : i # j => get_log[i] # get_log[j]

\* Two Jobs were put and taken, the first put by the first worker to take
\* one, and both workers hold their Job.
C14_Witness ==
    /\ Len(put_log) = 2 /\ Len(get_log) = 2
    /\ \E w1, w2 \in WorkerIds :
        /\ w1 # w2
        /\ workers[w1].task = put_log[1]
        /\ workers[w2].task = put_log[2]

\* C15: once the cancellation flag is set during a job run, the run starts
\* no remote call, counts no code except one whose call in flight ended
\* success or invalid, and ends with the cancelled result unless it ends
\* for a failed login or with every code at success or invalid.
C15_CancelStopsRun ==
    [][(cancel_flag /\ Active) =>
         /\ rhist'.calls = rhist.calls
         /\ run'.tracker # run.tracker
              => rhist'.outcome[run.idx] \in {"success", "invalid"}
         /\ run'.pc = "done"
              => \/ run'.result \in {"cancelled", "login_failed"}
                 \/ \A i \in DOMAIN rhist'.outcome :
                        rhist'.outcome[i] \in {"success", "invalid"}
      ]_vars

\* C16: once the caller's timeout has fired for a job run, the run starts
\* no remote call and processes no further code.
C16_TimeoutStopsRun ==
    [][(rhist.timed_out /\ Active) =>
         /\ rhist'.calls = rhist.calls
         /\ run'.tracker = run.tracker
      ]_vars

\* C17: as long as no session was obtained the run has made no remote call,
\* the code file holds the loaded codes, both logs are empty, nothing is
\* counted and no balance is changed; a run whose MAX_LOGIN_RETRY login
\* attempts all failed ends with the login failure.
C17_NoSessionNoRedeem ==
    /\ (Active \/ run.pc = "done") /\ ~rhist.session
         => /\ rhist.calls = 0
            /\ run.tracker.processed = 0
            /\ files.success = <<>> /\ files.invalid = <<>>
            /\ run.pc # "idle" /\ run.codes # <<>>
                  => load_codes(files.code_file) = run.codes
            /\ \A u \in Users : users[u].balance = 0
    /\ (run.pc = "done" /\ ~rhist.session /\ rhist.logins = MAX_LOGIN_RETRY)
         => run.result = "login_failed"

\* Three login attempts failed for a file of two codes.
C17_Witness ==
    /\ run.pc = "done" /\ run.result = "login_failed"
    /\ rhist.logins = MAX_LOGIN_RETRY
    /\ Len(run.codes) = 2 /\ Len(files.code_file) = 2

BadParameters ==
    \/ \E i \in DOMAIN rhist.region_input :
          Lower(rhist.region_input[i]) \notin REGION_MAP
    \/ rhist.android_version \notin ANDROID_VERSIONS

\* C18: a run called with a region that is not configured or with an
\* unknown platform version has ended with the validation error, without a
\* login attempt, a browser, a remote call or a code processed.
C18_ValidationFirst ==
    (run.pc # "idle" /\ BadParameters)
        => /\ run.pc = "done" /\ run.result = "validation_error"
           /\ rhist.logins = 0 /\ rhist.drivers = 0 /\ rhist.calls = 0
           /\ run.tracker.processed = 0

\* A run called with a configured and an unknown region and with an unknown
\* platform version ended with the validation error.
C18_Witness ==
    /\ run.pc = "done" /\ run.result = "validation_error"
    /\ rhist.region_input = <<"hk", "xx">>
    /\ rhist.android_version = "9.0"
    /\ files.code_file # <<>>

\* C19: a remote call is made for the current code only, which has no
\* outcome yet while every code before it in the list has one.
C19_CodesInOrder ==
    /\ [](\A i, j \in DOMAIN rhist.called :
            (i < j /\ rhist.called[j] > 0) => rhist.outcome[i] # None)
    /\ [][Active =>
            \A i \in DOMAIN rhist.called :
               rhist'.called[i] > rhist.called[i]
                 => /\ i = run.idx
                    /\ rhist.outcome[i] = None
                    /\ \A k \in 1..(i - 1) : rhist.outcome[k] # None
         ]_vars

\* Both codes of a list were called and the run is complete.
C19_Witness ==
    /\ run.pc = "done" /\ run.result = "complete"
    /\ Len(run.codes) = 2
    /\ \A i \in DOMAIN rhist.called : rhist.called[i] > 0

CountOutcome(o) ==
    Cardinality({i \in DOMAIN rhist.outcome : rhist.outcome[i] = o})

\* C20: the summary of a completed run that nobody cancelled counts as
\* successful the codes that ended success and as failed the codes that
\* ended invalid.
C20_CountsMatchOutcomes ==
    (run.pc = "done" /\ run.result = "complete" /\ ~cancel_flag)
        => /\ run.tracker.successful = CountOutcome("success")
           /\ run.tracker.failed = CountOutcome("invalid")

\* C22: when a job run has ended no browser opened by its login is left
\* open.
C22_DriversClosed ==
    run.pc = "done" => rhist.drivers = 0

RegionIndex(name) ==
    CHOOSE k \in DOMAIN run.regions : run.regions[k] = name

NextRegionOf(name) ==
    run.regions[(RegionIndex(name) % Len(run.regions)) + 1]

\* the calls made so far to the region of the k-th call of the current code
CallsToRegion(k) ==
    Cardinality({m \in 1..k : rhist.log[m].region = rhist.log[k].region})

\* C26: with at least two regions, the call after a call that was answered
\* by an unknown message targets the next region of the list.
C26_UnknownRotates ==
    \A k \in 1..(Len(rhist.log) - 1) :
        (Len(run.regions) >= 2 /\ rhist.log[k].resp = "unknown")
            => rhist.log[k + 1].region = NextRegionOf(rhist.log[k].region)

\* C27: the call after a call that timed out targets the same region while
\* that region was called fewer than MAX_REDEEM_RETRY_PER_REGION times, and
\* the next region of the list otherwise.
C27_TransientRetriesSameRegion ==
    \A k \in 1..(Len(rhist.log) - 1) :
        rhist.log[k].resp = "timeout"
            => rhist.log[k + 1].region =
                 IF CallsToRegion(k) < MAX_REDEEM_RETRY_PER_REGION
                 THEN rhist.log[k].region
                 ELSE NextRegionOf(rhist.log[k].region)

\* A code called twice on the first region, with a timeout, a timeout at the
\* cap, and then on the second region.
C27_Witness ==
    /\ Len(run.regions) = 2 /\ Len(rhist.log) = 3
    /\ rhist.log[1] = [region |-> run.regions[1], resp |-> "timeout"]
    /\ rhist.log[2] = [region |-> run.regions[1], resp |-> "timeout"]
    /\ rhist.log[3].region = run.regions[2]

\* C28: in a run that nobody cancelled the handling of a code ends with
\* success or invalid only: no code is given up after one pass over the
\* regions.
C28_CyclesUntilTerminal ==
    ~cancel_flag
        => \A i \in DOMAIN rhist.outcome :
              rhist.outcome[i] \in {None, "success", "invalid"}

\* C29: with two regions, a code whose first call, on the first region, is
\* answered invalid has ended invalid after that one call.
C29_InvalidEndsAtOnce ==
    (/\ Len(run.regions) = 2 /\ rhist.log # <<>>
     /\ rhist.log[1].resp = "invalid")
        => /\ rhist.log = <<[region |-> run.regions[1], resp |-> "invalid"]>>
           /\ rhist.outcome[rhist.logcode] = "invalid"
           /\ rhist.called[rhist.logcode] = 1
           /\ run.codes[rhist.logcode] \in
                 {files.invalid[m] : m \in DOMAIN files.invalid}

\* The run went on to the second code after the first was answered invalid
\* by the first of two regions.
C29_Witness ==
    /\ Len(run.regions) = 2 /\ Len(run.codes) = 2
    /\ rhist.logcode = 1 /\ run.idx = 2 /\ run.pc = "code"
    /\ rhist.log = <<[region |-> run.regions[1], resp |-> "invalid"]>>

\* C30: with two regions, a code whose calls are answered unknown, timeout,
\* timeout, success ends success after calls to the first, the second, the
\* second and the first region.
C30_ScriptedRotation ==
    (/\ Len(run.regions) = 2 /\ Len(rhist.log) = 4
     /\ [k \in 1..4 |-> rhist.log[k].resp]
          = <<"unknown", "timeout", "timeout", "success">>)
        => /\ [k \in 1..4 |-> rhist.log[k].region]
                = <<run.regions[1], run.regions[2], run.regions[2],
                    run.regions[1]>>
           /\ rhist.outcome[rhist.logcode] = "success"

\* C21: whatever the progress sink does, the run is not aborted by an
\* exception, and a code answered success or invalid by the remote service
\* is classified so, logged, counted and called no more.
C21_SinkFailureHarmless ==
    /\ run.result # "raised"
    /\ \A k \in DOMAIN rhist.log :
          rhist.log[k].resp \in {"success", "invalid"}
             => /\ k = Len(rhist.log)
                /\ rhist.outcome[rhist.logcode] = rhist.log[k].resp

\* C23: an upload whose debit succeeded and whose handler has ended put
\* exactly one Job on the queue.
C23_DebitedThenQueued ==
    \A p \in MsgProcs :
        (msg[p].pc = "done" /\ msg[p].debited)
            => Cardinality({k \in DOMAIN put_log : put_log[k].upload = p}) = 1

\* C24: while a worker waits for the job run it started, the code file of
\* the Job's user holds the upload that was billed for that Job.
C24_RunReadsBilledUpload ==
    \A w \in WorkerIds :
        workers[w].pc = "waiting"
            => temp_files[workers[w].task.user_id] = workers[w].task.upload

\* C25: a job run ends cancelled only when its own cancellation was
\* requested, and a running job whose cancellation was requested processes
\* no further code, whatever the other jobs do.
C25_CancellationPerJob ==
    /\ [](\A j \in WorkerIds :
            jobs[j].pc = "cancelled" => jobs[j].requested)
    /\ [][\A j \in WorkerIds :
            (jobs[j].pc = "running" /\ jobs[j].requested)
                => jobs'[j].checked = jobs[j].checked
         ]_vars

\* the codes of the run that ended with one of the outcomes os, in list order
CodesEnded(os) ==
    LET F[n \in 0..Len(run.codes)] ==
            IF n = 0 THEN <<>>
            ELSE IF rhist.outcome[n] \in os
                 THEN Append(F[n - 1], run.codes[n])
                 ELSE F[n - 1]
    IN  F[Len(run.codes)]

\* C31: a call answered success or invalid is the last call for its code,
\* a code with such an outcome is called no more, and the success log and
\* the invalid log hold, once each, the codes that ended success and the
\* codes that ended invalid.
C31_TerminalOnce ==
    /\ [](\A k \in DOMAIN rhist.log :
            rhist.log[k].resp \in {"success", "invalid"}
                => k = Len(rhist.log))
    /\ [](run.codes # <<>>
            => /\ files.success = CodesEnded({"success"})
               /\ files.invalid = CodesEnded({"invalid"}))
    /\ [][Active =>
            \A i \in DOMAIN rhist.called :
               rhist.outcome[i] \in {"success", "invalid"}
                  => rhist'.called[i] = rhist.called[i]
         ]_vars

\* A completed run of two codes, the first ended success after a call that
\* found no terminal answer, the second invalid.
C31_Witness ==
    /\ run.pc = "done" /\ run.result = "complete"
    /\ Len(run.codes) = 2
    /\ rhist.outcome = <<"success", "invalid">>
    /\ rhist.called[1] = 2
    /\ Len(files.success) = 1 /\ Len(files.invalid) = 1

\* C32: the well-formed lines of the code file are the codes of the run
\* that have not ended success or invalid, in list order.
C32_FileHoldsPending ==
    run.codes # <<>>
        => load_codes(files.code_file)
             = CodesEnded({None, "error"})

\* the last call of the current code ended with the response held
Answered == response # NoResponse /\ rhist.log # <<>>

LastResp == rhist.log[Len(rhist.log)].resp

\* the message tells that the code is malformed, used or not found
IndicatesInvalid(text) ==
    /\ text \cap {"invalid", "used", "not found", "already redeemed"} # {}
    /\ text \cap {"Assigned", "success"} = {}

\* C33: a response whose message tells that the code is malformed, already
\* used or not found is classified invalid and the code ends invalid.
C33_InvalidMessages ==
    (/\ Answered /\ response.kind = "json"
     /\ response.msg.is = "text" /\ IndicatesInvalid(response.msg.text))
        => /\ LastResp = "invalid"
           /\ rhist.outcome[rhist.logcode] = "invalid"

\* C34: every response ends the attempt in exactly one way, success, invalid
\* or an unknown/error one, a message with no success or invalid pattern
\* (the empty and the missing message included) gives unknown, and no
\* exception leaves the run.
C34_ClassificationTotal ==
    /\ run.result # "raised"
    /\ Answered
         => /\ LastResp \in {"success", "invalid", "unknown", "timeout",
                              "network", "exception"}
            /\ LastResp = ClassifyResponse(response)
            /\ (/\ response.kind = "json" /\ response.msg # Null
                /\ response.msg.text \cap {"Assigned", "success", "invalid",
                                            "used"} = {})
                  => LastResp = "unknown"

\* A null message, then a message with no known pattern, then a body that
\* is no JSON were answered for one code, which went on to the next region.
C34_Witness ==
    /\ Answered /\ Len(rhist.log) >= 3
    /\ rhist.log[1].resp = "exception"
    /\ rhist.log[2].resp = "unknown"
    /\ response.kind = "bad_json_value_error"
    /\ run.pc = "region"

\* the notification n was accepted by request p in this step
Accepted(p, n) ==
    wh[p].pc = "idle" /\ wh'[p].pc = "lookup" /\ WebhookReceive(p, n)

\* C35: the status kept for an accepted notification follows the table:
\* capture with fraud accept gives success, settlement gives success,
\* cancel, deny and expire give failed, pending gives pending, and every
\* notification gives one of success, pending, failed.
C35_FinalStatusTable ==
    [][\A p \in WhProcs, n \in Notifications :
          Accepted(p, n) =>
            LET ts == n.body.get.transaction_status
                fs == n.body.get.fraud_status
                st == wh'[p].status
            IN  /\ (ts = "capture" /\ fs = "accept") => st = "success"
                /\ ts = "settlement" => st = "success"
                /\ ts \in {"cancel", "deny", "expire"} => st = "failed"
                /\ ts = "pending" => st = "pending"
                /\ st \in {"success", "pending", "failed"}
      ]_vars

\* Two accepted notifications are being handled, one with the final status
\* success and one with failed.
C35_Witness ==
    \E p, q \in WhProcs :
        /\ wh[p].pc = "lookup" /\ wh[p].status = "success"
        /\ wh[q].pc = "lookup" /\ wh[q].status = "failed"

\* C36: every user's balance is the total topped up minus the total spent,
\* in every state, whatever the interleaving of credits and debits.
C36_BalanceIsTotals ==
    \A u \in Users :
        users[u].balance = users[u].total_topup - users[u].total_spent

\* the Job of upload p was handed to a worker
Dequeued(p) == \E i \in DOMAIN get_log : get_log[i].upload = p

C38_ReportCounts ==
    run.pc = "reported"
        => /\ run.report.success_count = run.tracker.successful
           /\ run.report.failed_count = run.tracker.failed

====
